---- MODULE Spec2Model ----
(***************************************************************************)
(* Quorum, database creation: the quality-aware k-mer count table          *)
(* (hash_with_quality), the read scanner of quality_mer_counter::start     *)
(* and main's ingest-then-serialize sequence.                              *)
(*                                                                         *)
(* Sources: src/unnamed/part_000 (the database creator) and                *)
(* src/src/mer_database.hpp (the same table class, and the query side).    *)
(***************************************************************************)
EXTENDS Integers, Sequences, FiniteSets, TLC

(***************************************************************************)
(* Bounds of the model.                                                    *)
(***************************************************************************)
\* number of threads calling hash_with_quality::add concurrently
NThreads == 2
\* number of add calls made in a run, by all threads together
MaxCalls == 3
\* keys_.size(): number of slots of the key array and of the value array
TableSize == 1
\* distinct canonical mers offered to add (0 .. NKeys-1)
NKeys == 2
\* largest counter width (the bits argument) drawn
MaxBits == 2
\* width of a machine word of the value array in the model; the code packs
\* bits+1-bit entries into uint64_t words (64 there); the widest counter,
\* MaxBits, is one bit less than a word, as 63 is in the code
WordBits == 3
\* reprobe_limit handed to the key array
ReprobeLimit == 0
\* mer_dna::k(), the mer length
K == 3
\* qual_thresh_, the quality threshold; a base is of high quality above it
QualThresh == 1
\* number of add calls made in a run whose threads are scheduled fairly
MaxFairCalls == 2
\* longest read handed to the scanner
MaxReadLen == 4
\* batches the read parser delivers at most
MaxBatches == 2
\* reads one batch holds at most (nb_filled)
MaxFill == 2

Threads == 1 .. NThreads
Slots   == 0 .. (TableSize - 1)
Keys    == 0 .. (NKeys - 1)
NoKey   == -1
NoSlot  == -1
Qualities == {0, 1}

VARIABLES
    bits,       \* the counter width the table was constructed with
    keys,       \* keys_: slot -> key stored there, or NoKey
    vals,       \* vals_: slot -> packed value (bits+1 bits)
    apc,        \* position of each thread inside add
    akey,       \* add's argument key
    aq,         \* add's argument quality
    aid,        \* add's local id
    oval,       \* add's local oval
    nval,       \* add's local nval
    prev_word,  \* the word the thread's entry proxy last saw
    rets,       \* values returned by the thread's finished add calls
    succ,       \* per key: how many add calls of quality 0 and of quality 1 returned true
    raced,      \* whether a thread's swap has failed so far
    mpc,        \* position of main
    wpc,        \* position of each worker thread in quality_mer_counter::start
    batches,    \* batches the read parser has still to deliver
    job,        \* the batch each worker holds
    ri,         \* start's loop index i into the batch
    wm,         \* start's local m of each worker
    wrm,        \* start's local rm of each worker
    scanned,    \* the read each worker scanned last
    trace,      \* what the scan of that read did: bases visited, counters, add calls
    out,        \* the sections written to the output file, in order
    db,         \* the database_query object that reopens the output file
    args        \* the command line as parsed, and whether the output file can be opened

addVars == <<bits, keys, vals, apc, akey, aq, aid, oval, nval, prev_word, rets, succ, raced>>

progVars == <<mpc, wpc, batches, job, ri, wm, wrm, scanned, trace, out, db, args>>

vars == <<addVars, progVars>>

(***************************************************************************)
(* hash_with_quality: construction.                                        *)
(***************************************************************************)
Pow2(n) == 2 ^ n

max_val_Mut(b) == Pow2(WordBits) - 1

\* (uint64_t)-1 >> (sizeof(uint64_t) * 8 - bits)
max_val_(b) == (Pow2(WordBits) - 1) \div Pow2(WordBits - b)

\* vals_(bits + 1, keys_.size()): width of one entry
EntryBits(b) == b + 1

\* entries of the value array held by one word
PerWord(b) == WordBits \div EntryBits(b)

\* the slots that share the word of slot id
WordSlots(b, id) == {s \in Slots : s \div PerWord(b) = id \div PerWord(b)}

\* the content of the word that holds slot id
WordOf(v, b, id) == [s \in WordSlots(b, id) |-> v[s]]

(***************************************************************************)
(* The key array: keys_.set(key, &is_new, &id).                            *)
(***************************************************************************)
Hash(key) == key % TableSize

ProbeSlot(key, j) == (Hash(key) + j) % TableSize

\* first probe position that holds key or is free; NoSlot when the reprobe
\* limit is exceeded
RECURSIVE Probe(_, _, _)
Probe(ks, key, j) ==
    IF j > ReprobeLimit THEN NoSlot
    ELSE IF ks[ProbeSlot(key, j)] \in {key, NoKey} THEN ProbeSlot(key, j)
    ELSE Probe(ks, key, j + 1)

KeysSet(ks, key) == Probe(ks, key, 0)

(***************************************************************************)
(* hash_with_quality::add, the body of the do-while loop.                  *)
(***************************************************************************)
DowngradeMut(v, q) == (v % 2) < q

DowngradeAnyMut(v, q) == (v % 2) # q

\* (oval & 1) > quality
Downgrade(v, q) == (v % 2) > q

SaturatedMut(v, b) == v = max_val_(b)

\* (oval >> 1) == max_val_
Saturated(v, b) == (v \div 2) = max_val_(b)

IncrMut(v) == v + 1

\* nval = oval + 2
Incr(v) == v + 2

LoopBodyMut(v, q, b) == [ret |-> TRUE, nval |-> v]

\* the branch one iteration takes and the candidate it computes
LoopBody(v, q, b) ==
    IF Downgrade(v, q) THEN [ret |-> FALSE, nval |-> 3]
    ELSE IF Saturated(v, b) THEN [ret |-> TRUE, nval |-> v]
    ELSE [ret |-> FALSE, nval |-> Incr(v)]

\* entry.set(nval) stores nval in the entry's bits+1 bits of the word
Stored(v, b) == v % Pow2(EntryBits(b))

RetryPcMut(ok) == "idle"

\* while(!entry.set(nval)): leave the loop when the swap succeeded
RetryPc(ok) == IF ok THEN "idle" ELSE "loop"

AfterAddMut(r) == IF r THEN "idle" ELSE "abort"

\* ary_.add(...) in the scanner: the result is discarded, the scan goes on
AfterAdd(r) == "idle"

ReloadMut(cur, pw) == pw

\* entry.set(nval) that fails leaves in the proxy, and in nval, what the word
\* holds now
Reload(cur, pw) == cur

(***************************************************************************)
(* Actions of a thread inside add.                                         *)
(***************************************************************************)
Locals(w, pc, id, ov, nv, pw) ==
    /\ apc' = [apc EXCEPT ![w] = pc]
    /\ aid' = [aid EXCEPT ![w] = id]
    /\ oval' = [oval EXCEPT ![w] = ov]
    /\ nval' = [nval EXCEPT ![w] = nv]
    /\ prev_word' = [prev_word EXCEPT ![w] = pw]

\* add returns r: the locals go out of scope
Return(w, r, pc) ==
    /\ Locals(w, pc, NoSlot, 0, 0, <<>>)
    /\ rets' = [rets EXCEPT ![w] = Append(@, r)]
    /\ succ' = IF r THEN [succ EXCEPT ![akey'[w]][aq'[w]] = @ + 1] ELSE succ

\* the add calls begun so far
RECURSIVE Begun(_)
Begun(ws) ==
    IF ws = {} THEN 0
    ELSE LET w == CHOOSE x \in ws : TRUE
         IN Len(rets[w]) + (IF apc[w] = "idle" THEN 0 ELSE 1) + Begun(ws \ {w})

\* if(!keys_.set(key, &is_new, &id)) return false;
AddSet(w) ==
    /\ apc[w] = "idle"
    /\ Begun(Threads) < MaxCalls
    /\ \E key \in Keys, q \in Qualities :
         /\ akey' = [akey EXCEPT ![w] = key]
         /\ aq' = [aq EXCEPT ![w] = q]
         /\ LET id == KeysSet(keys, key) IN
              IF id = NoSlot
              THEN /\ Return(w, FALSE, AfterAdd(FALSE))
                   /\ UNCHANGED <<keys>>
              ELSE /\ keys' = [keys EXCEPT ![id] = key]
                   /\ Locals(w, "get", id, 0, 0, <<>>)
                   /\ UNCHANGED <<rets, succ>>
    /\ UNCHANGED <<bits, vals, raced, progVars>>

\* one iteration of the loop by thread w, which holds value v of its entry
\* in nval and word pw in its proxy: do { oval = nval; if ... nval = 3;
\* else if ... return true; else nval = oval + 2; } and on to the swap
Iterate(w, v, pw) ==
    LET r == LoopBody(v, aq[w], bits) IN
    IF r.ret
    THEN /\ UNCHANGED <<akey, aq>>
         /\ Return(w, TRUE, AfterAdd(TRUE))
    ELSE /\ Locals(w, "cas", aid[w], v, r.nval, pw)
         /\ UNCHANGED <<akey, aq, rets, succ>>

\* auto entry = vals_[id]; uint64_t nval = entry.get(); and the first
\* iteration of the loop, which touches the thread's locals only
AddGet(w) ==
    /\ apc[w] = "get"
    /\ Iterate(w, vals[aid[w]], WordOf(vals, bits, aid[w]))
    /\ UNCHANGED <<bits, keys, vals, raced, progVars>>

\* an iteration of the loop on the value the thread holds in nval
AddLoop(w) ==
    /\ apc[w] = "loop"
    /\ Iterate(w, nval[w], prev_word[w])
    /\ UNCHANGED <<bits, keys, vals, raced, progVars>>

\* } while(!entry.set(nval)); return true;
\* entry.set swaps the word it last saw for the word with the entry replaced;
\* when the word has changed it reloads nval from the word and fails, and the
\* loop goes into its next iteration
AddCas(w) ==
    /\ apc[w] = "cas"
    /\ LET cur == WordOf(vals, bits, aid[w])
           ok  == cur = prev_word[w]
       IN /\ vals' = IF ok THEN [vals EXCEPT ![aid[w]] = Stored(nval[w], bits)] ELSE vals
          /\ raced' = (raced \/ ~ok)
          /\ IF RetryPc(ok) = "loop"
             THEN LET seen == Reload(cur, prev_word[w])
                  IN Iterate(w, seen[aid[w]], seen)
             ELSE /\ UNCHANGED <<akey, aq>>
                  /\ Return(w, TRUE, AfterAdd(TRUE))
    /\ UNCHANGED <<bits, keys, progVars>>

(***************************************************************************)
(* add run alone, as one step: what a call does to the table when no other *)
(* thread interferes (the key lookup, one loop iteration, a swap that      *)
(* succeeds).                                                              *)
(***************************************************************************)
RunAdd(tab, call, b) ==
    LET id == KeysSet(tab.keys, call.key) IN
    IF id = NoSlot THEN tab
    ELSE LET r == LoopBody(tab.vals[id], call.quality, b) IN
         [keys |-> [tab.keys EXCEPT ![id] = call.key],
          vals |-> IF r.ret THEN tab.vals
                   ELSE [tab.vals EXCEPT ![id] = Stored(r.nval, b)]]

RECURSIVE RunAdds(_, _, _)
RunAdds(tab, calls, b) ==
    IF calls = <<>> THEN tab
    ELSE RunAdds(RunAdd(tab, Head(calls), b), Tail(calls), b)

(***************************************************************************)
(* mer_dna: a mer of K bases, two bits per base, as a number.              *)
(***************************************************************************)
Symbols == {"A", "C", "G", "T", "N"}

\* mer_dna::code
code(c) ==
    CASE c = "A" -> 0 [] c = "C" -> 1 [] c = "G" -> 2 [] c = "T" -> 3 [] OTHER -> -1

not_dna(c) == c < 0

rev_code(c) == 3 - c

\* m.shift_left(c): the new base enters at the low end, the oldest leaves
shift_left(m, c) == (m * 4 + c) % (4 ^ K)

\* m.shift_right(c): the new base enters at the high end
shift_right(m, c) == (m \div 4) + c * (4 ^ (K - 1))

(***************************************************************************)
(* quality_mer_counter::start: the scan of one read.                       *)
(***************************************************************************)
HiQ == QualThresh + 1
LoQ == QualThresh
Quals == {LoQ, HiQ}

\* the state of the scan: the iterators base and qual as offsets from
\* begin(), the counters, the mers, and what the scan has done so far
ScanStart(m, rm) ==
    [base |-> 0, qual |-> 0, low_len |-> 0, high_len |-> 0, m |-> m, rm |-> rm,
     visited |-> <<>>, runs |-> <<>>, calls |-> <<>>, ub |-> FALSE, done |-> TRUE]

NoTrace == [ScanStart(0, 0) EXCEPT !.done = FALSE]

\* the for loop's condition: base != seq.begin()
LoopCond(st, read) == st.base # 0

\* the for loop's increment: ++base, ++base
LoopIncr(st) == [st EXCEPT !.base = @ + 2]

\* the body of the for loop over the bases
ScanBody(st, read) ==
    LET c  == code(read.seq[st.base + 1])
        v  == [st EXCEPT !.visited = Append(@, st.base + 1)]
    IN
    IF not_dna(c)
    THEN [v EXCEPT !.high_len = 0, !.low_len = 0, !.runs = Append(@, <<0, 0>>)]
    ELSE LET m1   == shift_right(shift_left(st.m, c), rev_code(c))
             low  == st.low_len + 1
             high == IF read.qual[st.qual + 1] > QualThresh THEN st.high_len + 1 ELSE 0
             key  == IF m1 < st.rm THEN m1 ELSE st.rm
             call == [pos |-> st.base + 1, key |-> key,
                      quality |-> IF high >= K THEN 1 ELSE 0]
         IN [v EXCEPT !.m = m1, !.low_len = low, !.high_len = high,
                      !.runs = Append(@, <<low, high>>),
                      !.calls = IF low >= K THEN Append(@, call) ELSE @]

\* the for loop; running an iterator past the end of its string is
\* undefined, the scan is cut there and marked
RECURSIVE ScanLoop(_, _)
ScanLoop(st, read) ==
    IF ~LoopCond(st, read) THEN st
    ELSE IF st.base >= Len(read.seq) \/ st.qual >= Len(read.qual)
         THEN [st EXCEPT !.ub = TRUE]
         ELSE ScanLoop(LoopIncr(ScanBody(st, read)), read)

Scan(read, m, rm) == ScanLoop(ScanStart(m, rm), read)

(***************************************************************************)
(* The worker threads: quality_mer_counter::start.                         *)
(***************************************************************************)
OnEmptyJobMut == "job"

\* if(job.is_empty()) break;
OnEmptyJob == "done"

\* read_parser::job job(parser_): the next batch, or an empty job
TakeJob(w) ==
    /\ wpc[w] = "job"
    /\ IF batches = <<>>
       THEN /\ wpc' = [wpc EXCEPT ![w] = OnEmptyJob]
            /\ UNCHANGED <<batches, job, ri>>
       ELSE /\ job' = [job EXCEPT ![w] = Head(batches)]
            /\ batches' = Tail(batches)
            /\ ri' = [ri EXCEPT ![w] = 0]
            /\ wpc' = [wpc EXCEPT ![w] = "reads"]
    /\ UNCHANGED <<addVars, mpc, wm, wrm, scanned, trace, out, db, args>>

\* one iteration of for(i = 0; i < job->nb_filled; ++i): the scan of read i
\* and the add calls it makes
ProcessRead(w) ==
    /\ wpc[w] = "reads"
    /\ ri[w] < Len(job[w])
    /\ LET read == job[w][ri[w] + 1]
           st   == Scan(read, wm[w], wrm[w])
           tab  == RunAdds([keys |-> keys, vals |-> vals], st.calls, bits)
       IN /\ wm' = [wm EXCEPT ![w] = st.m]
          /\ wrm' = [wrm EXCEPT ![w] = st.rm]
          /\ scanned' = [scanned EXCEPT ![w] = read]
          /\ trace' = [trace EXCEPT ![w] = st]
          /\ keys' = tab.keys
          /\ vals' = tab.vals
    /\ ri' = [ri EXCEPT ![w] = @ + 1]
    /\ UNCHANGED <<bits, apc, akey, aq, aid, oval, nval, prev_word, rets, succ, raced>>
    /\ UNCHANGED <<mpc, wpc, batches, job, out, db, args>>

\* i = nb_filled: the batch is done, the job is released
ReleaseJob(w) ==
    /\ wpc[w] = "reads"
    /\ ri[w] = Len(job[w])
    /\ wpc' = [wpc EXCEPT ![w] = "job"]
    /\ job' = [job EXCEPT ![w] = <<>>]
    /\ ri' = [ri EXCEPT ![w] = 0]
    /\ UNCHANGED <<addVars, mpc, batches, wm, wrm, scanned, trace, out, db, args>>

(***************************************************************************)
(* main, from the construction of the table on.                            *)
(***************************************************************************)
AfterExecMut == "header"

\* counter.exec_join(args.threads_arg): main waits for the threads it started
AfterExec == "join"

\* exec_join starts the worker threads
MainExec ==
    /\ mpc = "exec"
    /\ mpc' = AfterExec
    /\ wpc' = [w \in Threads |-> "job"]
    /\ UNCHANGED <<addVars, batches, job, ri, wm, wrm, scanned, trace, out, db, args>>

\* exec_join returns when every worker thread has ended
MainJoin ==
    /\ mpc = "join"
    /\ \A w \in Threads : wpc[w] = "done"
    /\ mpc' = "header"
    /\ UNCHANGED <<addVars, wpc, batches, job, ri, wm, wrm, scanned, trace, out, db, args>>

\* header.update_from_ary(ary.keys()); header.bits(...); header.write(output);
MainHeader ==
    /\ mpc = "header"
    /\ out' = Append(out, "header")
    /\ mpc' = "ary"
    /\ UNCHANGED <<addVars, wpc, batches, job, ri, wm, wrm, scanned, trace, db, args>>

\* hash_with_quality::write of the creator: vals_.write(os); keys_.write(os);
write == <<"vals", "keys">>

\* ary.write(output);
MainWriteAry ==
    /\ mpc = "ary"
    /\ out' = out \o write
    /\ mpc' = "close"
    /\ UNCHANGED <<addVars, wpc, batches, job, ri, wm, wrm, scanned, trace, db, args>>

\* output.close(); return 0;
MainClose ==
    /\ mpc = "close"
    /\ mpc' = "exit"
    /\ UNCHANGED <<addVars, wpc, batches, job, ri, wm, wrm, scanned, trace, out, db, args>>

(***************************************************************************)
(* The output file: the header, and after it (from the header's offset on) *)
(* the words the two arrays write.                                         *)
(***************************************************************************)
\* words of the value array: it holds PerWord entries in each word
NWords(b) == (TableSize + PerWord(b) - 1) \div PerWord(b)

\* word i of the value array: entry j of the word lies EntryBits * j bits up
RECURSIVE PackWord(_, _, _, _)
PackWord(v, b, i, j) ==
    IF j = PerWord(b) THEN 0
    ELSE LET s == i * PerWord(b) + j
         IN (IF s < TableSize THEN v[s] ELSE 0) * Pow2(EntryBits(b) * j)
            + PackWord(v, b, i, j + 1)

\* entry j of a word of the value array
EntryOf(word, b, j) == (word \div Pow2(EntryBits(b) * j)) % Pow2(EntryBits(b))

\* the word of a slot of the key array: zero when the slot is free
KeyWord(k) == IF k = NoKey THEN 0 ELSE k + 1

KeyOfWord(word) == IF word = 0 THEN NoKey ELSE word - 1

\* vals_.write(os), keys_.write(os): the words a section of the file holds;
\* the header lies before the offset
Section(name, ks, v, b) ==
    CASE name = "vals" -> [i \in 1 .. NWords(b) |-> PackWord(v, b, i - 1, 0)]
      [] name = "keys" -> [i \in 1 .. TableSize |-> KeyWord(ks[i - 1])]
      [] OTHER -> <<>>

\* the words of the file from the header's offset on
RECURSIVE Body(_, _, _, _)
Body(o, ks, v, b) ==
    IF o = <<>> THEN <<>>
    ELSE Section(Head(o), ks, v, b) \o Body(Tail(o), ks, v, b)

\* hash_with_quality::write of mer_database.hpp: keys_.write(os); vals_.write(os);
write_hpp == <<"keys", "vals">>

\* ary.write(output) of a creator built with the class of mer_database.hpp
WriteAryHpp ==
    /\ mpc = "ary"
    /\ out' = out \o write_hpp
    /\ mpc' = "close"
    /\ UNCHANGED <<addVars, wpc, batches, job, ri, wm, wrm, scanned, trace, db, args>>

(***************************************************************************)
(* database_query: the file reopened.                                      *)
(***************************************************************************)
NotOpened == [opened |-> FALSE]

\* header_.key_bytes(): neither creator sets the field (no key_bytes(...) call
\* at part_000:167-168), so the value read is what the header parser gives
\* for a missing field, zero or the size of the key section
KeyBytes == {0, TableSize}

\* the word at position i from the offset; past the end of the mapping the
\* read is undefined
WordAt(body, i) == IF i \in 1 .. Len(body) THEN body[i] ELSE 0

\* keys_(base + offset, key_bytes, size, ...),
\* vals_(base + offset + key_bytes, value_bytes, bits, size)
DatabaseQuery ==
    /\ mpc = "exit"
    /\ ~db.opened
    /\ \E kb \in KeyBytes :
         LET body == Body(out, keys, vals, bits)
             last == kb + NWords(bits)
         IN db' = [opened |-> TRUE,
                   key_bytes |-> kb,
                   keys |-> [s \in Slots |-> KeyOfWord(WordAt(body, s + 1))],
                   vals |-> [s \in Slots |->
                               EntryOf(WordAt(body, kb + (s \div PerWord(bits)) + 1),
                                       bits, s % PerWord(bits))],
                   ub |-> (TableSize > Len(body) \/ last > Len(body))]
    /\ UNCHANGED <<addVars, mpc, wpc, batches, job, ri, wm, wrm, scanned, trace, out, args>>

(***************************************************************************)
(* main, from the parsed command line to the construction of the table.    *)
(***************************************************************************)
\* longest --min-qual-char argument drawn
MaxCharLen == 2

\* the bits argument may be 1 .. 63 with words of 64 bits: all but the full
\* width of a word
MaxValidBits == WordBits - 1

\* args after args.parse(argc, argv): a string option that is not given is
\* the empty string
ArgsSet ==
    {a \in [value_given : BOOLEAN, char_given : BOOLEAN, char_len : 0 .. MaxCharLen,
            bits_arg : 0 .. WordBits, output_ok : BOOLEAN] :
       ~a.char_given => a.char_len = 0}

\* a command line that main accepts, for a table of b bits
RunArgs(b) ==
    [value_given |-> FALSE, char_given |-> TRUE, char_len |-> 1,
     bits_arg |-> b, output_ok |-> TRUE]

\* if(args.min_qual_char_arg.size() != 1)
CharSizeCheck(a) == a.char_len # 1

Startup(from, reject, to, out_pc) ==
    /\ mpc = from
    /\ mpc' = IF reject THEN out_pc ELSE to
    /\ UNCHANGED <<addVars, wpc, batches, job, ri, wm, wrm, scanned, trace, out, db, args>>

\* if(!args.min_qual_value_given && !args.min_qual_char_given) args.error(...)
CheckQualGiven ==
    Startup("args", ~args.value_given /\ ~args.char_given, "char", "usage_error")

\* if(args.min_qual_char_arg.size() != 1) args.error(...)
CheckCharSize == Startup("char", CharSizeCheck(args), "bits", "usage_error")

\* if(args.bits_arg < 1 || args.bits_arg > 63) args.error(...)
CheckBits ==
    Startup("bits", args.bits_arg < 1 \/ args.bits_arg > MaxValidBits, "open", "usage_error")

\* std::ofstream output(args.output_arg); if(!output.good()) die << ...
OpenOutput == Startup("open", ~args.output_ok, "construct", "died")

\* hash_with_quality ary(args.size_arg, 2 * mer_dna::k(), args.bits_arg, args.reprobe_arg);
\* and the construction of the streams and of the counter
Construct ==
    /\ mpc = "construct"
    /\ bits' = args.bits_arg
    /\ mpc' = "exec"
    /\ UNCHANGED <<keys, vals, apc, akey, aq, aid, oval, nval, prev_word, rets, succ, raced>>
    /\ UNCHANGED <<wpc, batches, job, ri, wm, wrm, scanned, trace, out, db, args>>

(***************************************************************************)
(* Initial states.                                                         *)
(***************************************************************************)
\* hash_with_quality(size, key_len, bits, reprobe_limit): empty keys, zero values
InitTable ==
    /\ keys = [s \in Slots |-> NoKey]
    /\ vals = [s \in Slots |-> 0]

InitLocals ==
    /\ apc = [w \in Threads |-> "idle"]
    /\ akey = [w \in Threads |-> NoKey]
    /\ aq = [w \in Threads |-> 0]
    /\ aid = [w \in Threads |-> NoSlot]
    /\ oval = [w \in Threads |-> 0]
    /\ nval = [w \in Threads |-> 0]
    /\ prev_word = [w \in Threads |-> <<>>]
    /\ rets = [w \in Threads |-> <<>>]
    /\ succ = [k \in Keys |-> [q \in Qualities |-> 0]]
    /\ raced = FALSE

InitWorkers ==
    /\ job = [w \in Threads |-> <<>>]
    /\ ri = [w \in Threads |-> 0]
    /\ wm = [w \in Threads |-> 0]
    /\ wrm = [w \in Threads |-> 0]
    /\ scanned = [w \in Threads |-> [seq |-> <<>>, qual |-> <<>>]]
    /\ trace = [w \in Threads |-> NoTrace]

\* the reads of the input files of a run of the whole program
SampleReads ==
    {[seq |-> <<"A", "C", "G", "T">>, qual |-> <<HiQ, HiQ, HiQ, HiQ>>],
     [seq |-> <<"A", "C", "G", "T">>, qual |-> <<HiQ, HiQ, HiQ, LoQ>>]}

\* the numbers of reads of the batches of a run
Fills == UNION {[1 .. n -> 1 .. MaxFill] : n \in 0 .. MaxBatches}

\* the batches of a run whose input holds the read r over and over
BatchesOf(r, fills) == [i \in 1 .. Len(fills) |-> [j \in 1 .. fills[i] |-> r]]

(***************************************************************************)
(* The whole program: main at the start of exec_join, the table            *)
(* constructed, the input a finite sequence of batches.                    *)
(***************************************************************************)
Init ==
    /\ bits \in 1 .. MaxBits
    /\ InitTable
    /\ InitLocals
    /\ InitWorkers
    /\ mpc = "exec"
    /\ wpc = [w \in Threads |-> "unstarted"]
    /\ \E r \in SampleReads, fills \in Fills : batches = BatchesOf(r, fills)
    /\ out = <<>>
    /\ db = NotOpened
    /\ args = RunArgs(bits)

WorkerStep(w) == TakeJob(w) \/ ProcessRead(w) \/ ReleaseJob(w)

MainStep == MainExec \/ MainJoin \/ MainHeader \/ MainWriteAry \/ MainClose

Next == MainStep \/ \E w \in Threads : WorkerStep(w)

Spec == Init /\ [][Next]_vars

\* every thread that can take a step is scheduled eventually
FairSpec == Spec /\ WF_vars(MainStep) /\ \A w \in Threads : WF_vars(WorkerStep(w))

(***************************************************************************)
(* Concurrent calls of add on a freshly constructed table, the keys and    *)
(* qualities chosen freely by the callers.                                 *)
(***************************************************************************)
Parked ==
    /\ InitWorkers
    /\ mpc = "join"
    /\ wpc = [w \in Threads |-> "reads"]
    /\ batches = <<>>
    /\ out = <<>>
    /\ db = NotOpened
    /\ args = RunArgs(bits)

InitAdd ==
    /\ bits \in 1 .. MaxBits
    /\ InitTable
    /\ InitLocals
    /\ Parked

NextAdd == \E w \in Threads : AddSet(w) \/ AddGet(w) \/ AddCas(w)

SpecAdd == InitAdd /\ [][NextAdd]_vars

\* finitely many calls, and a thread inside add is scheduled again and again
NextFairAdd ==
    \E w \in Threads :
      \/ Begun(Threads) < MaxFairCalls /\ AddSet(w)
      \/ AddGet(w)
      \/ AddCas(w)

FairSpecAdd ==
    /\ InitAdd
    /\ [][NextFairAdd]_vars
    /\ \A w \in Threads : WF_vars(AddGet(w) \/ AddCas(w))

(***************************************************************************)
(* One iteration of add's loop on any old value and any quality.           *)
(***************************************************************************)
InitMerge ==
    /\ bits \in 1 .. MaxBits
    /\ keys = [s \in Slots |-> IF s = 0 THEN 0 ELSE NoKey]
    /\ vals = [s \in Slots |-> 0]
    /\ apc = [w \in Threads |-> "loop"]
    /\ akey = [w \in Threads |-> 0]
    /\ aq \in [Threads -> Qualities]
    /\ aid = [w \in Threads |-> 0]
    /\ oval = [w \in Threads |-> 0]
    /\ nval \in [Threads -> 0 .. (Pow2(EntryBits(bits)) - 1)]
    /\ prev_word = [w \in Threads |-> WordOf(vals, bits, 0)]
    /\ rets = [w \in Threads |-> <<>>]
    /\ succ = [k \in Keys |-> [q \in Qualities |-> 0]]
    /\ raced = FALSE
    /\ Parked

NextMerge == \E w \in Threads : AddLoop(w)

SpecMerge == InitMerge /\ [][NextMerge]_vars

(***************************************************************************)
(* The scan of one read, any read of up to MaxReadLen symbols.             *)
(***************************************************************************)
InitScan ==
    /\ bits = 1
    /\ InitTable
    /\ InitLocals
    /\ \E n \in 0 .. MaxReadLen :
         \E s \in [1 .. n -> Symbols], q \in [1 .. n -> Quals] :
           job = [w \in Threads |-> IF w = 1 THEN <<[seq |-> s, qual |-> q]>> ELSE <<>>]
    /\ ri = [w \in Threads |-> 0]
    /\ wm = [w \in Threads |-> 0]
    /\ wrm = [w \in Threads |-> 0]
    /\ scanned = [w \in Threads |-> [seq |-> <<>>, qual |-> <<>>]]
    /\ trace = [w \in Threads |-> NoTrace]
    /\ mpc = "join"
    /\ wpc = [w \in Threads |-> IF w = 1 THEN "reads" ELSE "done"]
    /\ batches = <<>>
    /\ out = <<>>
    /\ db = NotOpened
    /\ args = RunArgs(bits)

NextScan == \E w \in Threads : ProcessRead(w)

SpecScan == InitScan /\ [][NextScan]_vars

(***************************************************************************)
(* The whole program on an input of one read: the read ACGT, its qualities *)
(* any.                                                                    *)
(***************************************************************************)
ACGT == <<"A", "C", "G", "T">>

InitEnd ==
    /\ bits \in 1 .. MaxBits
    /\ InitTable
    /\ InitLocals
    /\ InitWorkers
    /\ mpc = "exec"
    /\ wpc = [w \in Threads |-> "unstarted"]
    /\ \E q \in [1 .. Len(ACGT) -> Quals] : batches = <<<<[seq |-> ACGT, qual |-> q]>>>>
    /\ out = <<>>
    /\ db = NotOpened
    /\ args = RunArgs(bits)

SpecEnd == InitEnd /\ [][Next]_vars

(***************************************************************************)
(* The whole program from the parsed command line on, any command line.    *)
(***************************************************************************)
InitStart ==
    /\ bits = 0
    /\ InitTable
    /\ InitLocals
    /\ InitWorkers
    /\ mpc = "args"
    /\ wpc = [w \in Threads |-> "unstarted"]
    /\ \E r \in SampleReads, fills \in Fills : batches = BatchesOf(r, fills)
    /\ out = <<>>
    /\ db = NotOpened
    /\ args \in ArgsSet

NextStart ==
    \/ CheckQualGiven
    \/ CheckCharSize
    \/ CheckBits
    \/ OpenOutput
    \/ Construct
    \/ Next

SpecStart == InitStart /\ [][NextStart]_vars

(***************************************************************************)
(* A table filled by concurrent add calls of the workers, serialized by    *)
(* main after the join with either write, and reopened by database_query.  *)
(***************************************************************************)
\* a worker is inside add only while it scans (part_000:133), and leaves
\* its loops only between two add calls
WorkerAdds(w) ==
    /\ wpc[w] = "reads"
    /\ AddSet(w) \/ AddGet(w) \/ AddCas(w)

WorkerEnds(w) ==
    /\ apc[w] = "idle"
    /\ ReleaseJob(w) \/ TakeJob(w)

NextTrip ==
    \/ \E w \in Threads : WorkerAdds(w) \/ WorkerEnds(w)
    \/ MainJoin
    \/ MainHeader
    \/ MainWriteAry
    \/ WriteAryHpp
    \/ MainClose
    \/ DatabaseQuery

SpecTrip == InitAdd /\ [][NextTrip]_vars

(***************************************************************************)
(* The properties checked.                                                 *)
(***************************************************************************)
\* the merge rule of a packed value: flag = low bit, counter = the rest
MergeRule(v, q, b) ==
    IF (v % 2) > q THEN 3
    ELSE IF (v \div 2) = 2 ^ b - 1 THEN v
    ELSE v + 2

\* the values the merge rule yields from v when applied once per call, to
\* n0 calls of quality 0 and n1 calls of quality 1, in every order
RECURSIVE SeqResults(_, _, _, _)
SeqResults(v, n0, n1, b) ==
    IF n0 = 0 /\ n1 = 0 THEN {v}
    ELSE (IF n0 > 0 THEN SeqResults(MergeRule(v, 0, b), n0 - 1, n1, b) ELSE {})
         \cup (IF n1 > 0 THEN SeqResults(MergeRule(v, 1, b), n0, n1 - 1, b) ELSE {})

SlotsOf(key) == {s \in Slots : keys[s] = key}

Quiescent == \A w \in Threads : apc[w] = "idle"

Calls(key) == succ[key][0] + succ[key][1]

\* C1: when no add call is in progress, the packed value of every key is the
\* value the merge rule gives when applied once per successful call on that
\* key in some sequential order (a key nobody recorded holds 0): no update
\* is lost, whatever the interleaving of the reads, iterations and swaps.
C1_SerialOrder ==
    Quiescent =>
      \A key \in Keys :
        IF Calls(key) = 0
        THEN \A s \in SlotsOf(key) : vals[s] = 0
        ELSE \E s \in Slots :
               /\ SlotsOf(key) = {s}
               /\ vals[s] \in SeqResults(0, succ[key][0], succ[key][1], bits)

\* C1, its case: all calls are made, all on one key and by more than one
\* thread, a swap was lost to a race and retried, and the slot has counted
\* past 1.
C1_Witness ==
    /\ Quiescent
    /\ raced
    /\ \A w \in Threads : rets[w] # <<>>
    /\ \E key \in Keys :
         /\ Calls(key) = MaxCalls
         /\ \E s \in SlotsOf(key) : vals[s] \div 2 > 1

\* C2: one iteration of add's loop on old value v and quality q computes the
\* merge rule: 3 if (v & 1) > q; else, if (v >> 1) = 2^bits - 1, add returns
\* true and nothing is written; else v + 2. The iteration writes no slot.
C2_IterationIsMerge ==
    [][\A w \in Threads :
         (apc[w] = "loop" /\ apc'[w] # "loop") =>
           LET v == nval[w]
               q == aq[w]
           IN /\ vals' = vals
              /\ IF (v % 2) > q
                 THEN apc'[w] = "cas" /\ oval'[w] = v /\ nval'[w] = 3
                 ELSE IF (v \div 2) = 2 ^ bits - 1
                 THEN apc'[w] = "idle" /\ rets'[w] = Append(rets[w], TRUE)
                 ELSE apc'[w] = "cas" /\ oval'[w] = v /\ nval'[w] = v + 2]_vars

\* C2, its case: one thread took the reset branch from a flagged value, and
\* another returned from a saturated one.
C2_Witness ==
    \E w1, w2 \in Threads :
      /\ apc[w1] = "cas" /\ oval[w1] % 2 = 1 /\ aq[w1] = 0 /\ nval[w1] = 3
      /\ apc[w2] = "idle" /\ rets[w2] = <<TRUE>>

\* C3: once the counter of a slot equals 2^bits - 1, no step changes the
\* slot's packed value, and every add call on the slot's key that returns,
\* returns true.
C3_SaturatedStays ==
    [][\A s \in Slots :
         (vals[s] \div 2 = 2 ^ bits - 1) =>
           /\ vals'[s] = vals[s]
           /\ \A w \in Threads :
                (rets'[w] # rets[w] /\ akey'[w] = keys[s]) =>
                  rets'[w] = Append(rets[w], TRUE)]_vars

\* C3, its case: a key whose counter is saturated has had more successful
\* calls than the counter can hold, so a call returned true without a write.
C3_Witness ==
    \E key \in Keys : \E s \in SlotsOf(key) :
      /\ vals[s] \div 2 = 2 ^ bits - 1
      /\ Calls(key) > 2 ^ bits - 1

\* C4: when the key array has no place for the key of a call, add returns
\* false, no slot of the value array is read or written, the key array is
\* unchanged, and the caller is ready for its next observation.
C4_RejectedAndGoesOn ==
    [][\A w \in Threads :
         (/\ apc[w] = "idle"
          /\ rets'[w] # rets[w] \/ apc'[w] # "idle"
          /\ KeysSet(keys, akey'[w]) = NoSlot) =>
           /\ rets'[w] = Append(rets[w], FALSE)
           /\ vals' = vals
           /\ keys' = keys
           /\ prev_word'[w] = prev_word[w]
           /\ apc'[w] = "idle"]_vars

\* C4, its case: a thread's call was rejected and its next call succeeded.
C4_Witness ==
    \E w \in Threads :
      /\ Len(rets[w]) >= 2
      /\ rets[w][1] = FALSE
      /\ rets[w][2] = TRUE

AllEnded == \A w \in Threads : wpc[w] = "done"

\* C5: the header and the arrays are written only after every worker thread
\* has ended: whenever main has passed exec_join or anything is in the output
\* file, no worker is in its loop or inside add.
C5_SerializeAfterJoin ==
    (out # <<>> \/ mpc \in {"header", "ary", "close", "exit"}) =>
      /\ AllEnded
      /\ Quiescent

\* C5, its case: the run is over, the file holds the header and the two
\* arrays, and a worker had scanned a read before.
C5_Witness ==
    /\ mpc = "exit"
    /\ Len(out) = 3 /\ out[1] = "header"
    /\ AllEnded
    /\ \E w \in Threads : trace[w].done

\* C6: the input being a finite sequence of batches, under fair scheduling
\* every worker thread leaves its loop and exec_join returns.
C6_WorkersEndAndJoinReturns ==
    /\ <>AllEnded
    /\ <>(mpc = "header")

\* C6, its case: the batches are used up, every worker has ended after work
\* was done, and main is just past exec_join.
C6_Witness ==
    /\ mpc = "header"
    /\ batches = <<>>
    /\ AllEnded
    /\ \A w \in Threads : trace[w].done

(***************************************************************************)
(* The scanner, as the claims describe it.                                 *)
(***************************************************************************)
IsDna(c) == c \in {"A", "C", "G", "T"}

\* number of consecutive DNA symbols that end at position i
RECURSIVE ValidRun(_, _)
ValidRun(seq, i) ==
    IF i = 0 THEN 0
    ELSE IF ~IsDna(seq[i]) THEN 0
    ELSE 1 + ValidRun(seq, i - 1)

\* the positions at which a window of K DNA symbols ends
WindowEnds(seq) == {i \in 1 .. Len(seq) : ValidRun(seq, i) >= K}

\* a string of DNA symbols as a number, two bits per base, first base highest
RECURSIVE Enc(_)
Enc(s) ==
    IF s = <<>> THEN 0
    ELSE Enc(SubSeq(s, 1, Len(s) - 1)) * 4 + code(s[Len(s)])

Comp(c) == CASE c = "A" -> "T" [] c = "C" -> "G" [] c = "G" -> "C" [] c = "T" -> "A"

RevComp(s) == [i \in 1 .. Len(s) |-> Comp(s[Len(s) + 1 - i])]

Canonical(s) == IF Enc(s) < Enc(RevComp(s)) THEN Enc(s) ELSE Enc(RevComp(s))

CallPositions(t) == {t.calls[j].pos : j \in 1 .. Len(t.calls)}

\* C7: the scan of a read visits every base in order and calls add exactly
\* once at each position that ends a run of at least K DNA symbols (so n - K
\* + 1 times for n >= K DNA symbols).
C7_OneCallPerWindow ==
    \A w \in Threads :
      trace[w].done =>
        LET seq == scanned[w].seq
            t   == trace[w]
        IN /\ t.visited = [i \in 1 .. Len(seq) |-> i]
           /\ Len(t.calls) = Cardinality(WindowEnds(seq))
           /\ CallPositions(t) = WindowEnds(seq)

\* C8: the quality passed with a window is 1 exactly when each of its K
\* bases has its own quality above the threshold; with K = 3, the read ACGT
\* whose last base alone is of low quality gives ACG with 1 and CGT with 0.
C8_QualityOfWindow ==
    \A w \in Threads :
      trace[w].done =>
        LET r == scanned[w]
            t == trace[w]
        IN /\ \A j \in 1 .. Len(t.calls) :
                (t.calls[j].quality = 1) <=>
                  (\A i \in (t.calls[j].pos - K + 1) .. t.calls[j].pos :
                     r.qual[i] > QualThresh)
           /\ (K = 3 /\ r.seq = <<"A", "C", "G", "T">>
                     /\ r.qual = <<HiQ, HiQ, HiQ, LoQ>>) =>
                /\ Len(t.calls) = 2
                /\ t.calls[1].pos = 3 /\ t.calls[1].quality = 1
                /\ t.calls[2].pos = 4 /\ t.calls[2].quality = 0

\* C9: after sliding over a string s of K DNA symbols the scanner passes to
\* add the smaller of the numbers of s and of its reverse complement, which
\* is the same key for s and for the reverse complement of s.
C9_SameKeyBothStrands ==
    \A w \in Threads :
      (/\ trace[w].done
       /\ Len(scanned[w].seq) = K
       /\ \A i \in 1 .. K : IsDna(scanned[w].seq[i])) =>
        /\ Len(trace[w].calls) = 1
        /\ trace[w].calls[1].key = Canonical(scanned[w].seq)
        /\ trace[w].calls[1].key = Canonical(RevComp(scanned[w].seq))

Joined == mpc \in {"header", "ary", "close", "exit"}

\* the string of the window of K symbols that ends at position p
Window(seq, p) == SubSeq(seq, p - K + 1, p)

\* C11: the input being the one read ACGT with every quality above the
\* threshold, once the workers are joined each window of K bases of the read
\* has been passed to add once, as its canonical key and with quality 1, the
\* key array holds these keys, and every slot that holds a key has packed
\* value 3.
C11_EndToEnd ==
    \A w \in Threads :
      (/\ Joined
       /\ scanned[w] = [seq |-> ACGT, qual |-> [i \in 1 .. Len(ACGT) |-> HiQ]]) =>
        LET t == trace[w] IN
        /\ Len(t.calls) = Cardinality(WindowEnds(ACGT))
        /\ \A j \in 1 .. Len(t.calls) :
             /\ t.calls[j].quality = 1
             /\ t.calls[j].key = Canonical(Window(ACGT, t.calls[j].pos))
        /\ \A p \in WindowEnds(ACGT) :
             \E s \in Slots : keys[s] = Canonical(Window(ACGT, p))
        /\ \A s \in Slots : keys[s] # NoKey => vals[s] = 3

\* a table as its constructor leaves it
FreshTable == [keys |-> [s \in Slots |-> NoKey], vals |-> [s \in Slots |-> 0]]

\* the packed value of key's slot after observations of the quality classes
\* qs were recorded on a fresh table, one after the other
AfterSeq(key, qs, b) ==
    LET tab == RunAdds(FreshTable, [i \in 1 .. Len(qs) |-> [key |-> key, quality |-> qs[i]]], b)
    IN tab.vals[KeysSet(tab.keys, key)]

\* C12: on the packed value a fresh slot holds after an observation of class
\* 0 and then one of class 1, the iteration of an observation of class 0
\* takes the downgrade path (the stored flag is 1) and computes 3, counter 1
\* and flag 1, as the value to store.
C12_DowngradeOnThird ==
    [][\A w \in Threads :
         (/\ apc[w] = "loop" /\ apc'[w] # "loop"
          /\ aq[w] = 0
          /\ nval[w] = AfterSeq(akey[w], <<0, 1>>, bits)) =>
           /\ oval'[w] % 2 = 1
           /\ apc'[w] = "cas"
           /\ nval'[w] = 3]_vars

\* database_query's lookup of key: the slot of its reconstructed key array
\* that holds key, or NoSlot
Lookup(key) ==
    LET id == Probe(db.keys, key, 0)
    IN IF id # NoSlot /\ db.keys[id] = key THEN id ELSE NoSlot

\* C13: the file written by the creator (the header, then ary.write of
\* part_000) and reopened by database_query: every key of the table is found
\* in the reconstructed key array, and the reconstructed value array holds at
\* its slot the packed value the table held.
C13_RoundTrip ==
    (db.opened /\ out = <<"header">> \o write) =>
      \A s \in Slots :
        keys[s] # NoKey =>
          /\ Lookup(keys[s]) # NoSlot
          /\ db.vals[Lookup(keys[s])] = vals[s]

\* the order of the sections of a finished file
SectionOrder == <<"header", "vals", "keys">>

\* C14: every file a hash_with_quality::write has finished, the creator's or
\* the one of mer_database.hpp, holds the header, then the value array, then
\* the key array.
C14_SectionOrder ==
    mpc \in {"close", "exit"} => out = SectionOrder

\* a configuration the startup validation has to reject
BadConfig(a) ==
    \/ ~a.value_given /\ ~a.char_given
    \/ a.char_given /\ a.char_len # 1
    \/ a.bits_arg < 1 \/ a.bits_arg > MaxValidBits
    \/ ~a.output_ok

Rejected == mpc \in {"usage_error", "died"}

Validating == mpc \in {"args", "char", "bits", "open", "construct"}

\* C15: main ends in an error only on a configuration that gives neither
\* form of the threshold, a quality character that is given and is not one
\* character long, a bit width outside the valid range or an output file that cannot be
\* opened, and then the table is not constructed and no worker is started;
\* main is past the validation only on a configuration with none of these;
\* so a configuration that gives the threshold in one form alone, the rest
\* valid, goes on to the ingestion.
C15_Validation ==
    /\ Rejected =>
         /\ BadConfig(args)
         /\ bits = 0
         /\ \A w \in Threads : wpc[w] = "unstarted"
    /\ ~(Rejected \/ Validating) => ~BadConfig(args)

\* the word of the value array that thread w's entry lies in, as it is now
WordNow(w) == WordOf(vals, bits, aid[w])

\* thread w's swap is about to fail: the word is not the one its proxy saw
Stale(w) == apc[w] = "cas" /\ prev_word[w] # WordNow(w)

\* C16: the calls being finitely many and the threads scheduled fairly,
\* every add call returns. A thread's view of its word goes stale only in a
\* step in which another thread's swap on that word succeeds and that
\* thread's call returns, and a swap fails only on a stale view.
C16_EveryCallReturns ==
    /\ \A w \in Threads : (apc[w] # "idle") ~> (apc[w] = "idle")
    /\ [][\A w \in Threads :
            /\ (apc[w] = "cas" /\ ~Stale(w) /\ apc'[w] = "cas" /\ prev_word[w] # WordNow(w)') =>
                 \E u \in Threads \ {w} :
                   /\ apc[u] = "cas" /\ ~Stale(u)
                   /\ aid[u] \in DOMAIN prev_word[w]
                   /\ rets'[u] = Append(rets[u], TRUE)
            /\ (apc[w] = "cas" /\ apc'[w] = "cas" /\ prev_word'[w] # prev_word[w]) =>
                 Stale(w)]_vars

\* C16, its case: every call of the run has returned, the calls came from
\* more than one thread, and a swap had failed on the way.
C16_Witness ==
    /\ raced
    /\ Begun(Threads) = MaxFairCalls
    /\ \A w \in Threads : apc[w] = "idle" /\ Len(rets[w]) > 0

Min(a, b) == IF a < b THEN a ELSE b

\* C17: when no add call is in progress, a key that has had n successful
\* calls, all of quality 0, on a table that started fresh has counter
\* min(n, 2^bits - 1) and flag 0, whether the calls came one after the other
\* or at the same time (n = 0: the key holds no slot, or its slot holds 0).
C17_CountsLowQuality ==
    Quiescent =>
      \A key \in Keys :
        succ[key][1] = 0 =>
          LET n == succ[key][0] IN
          /\ n > 0 => Cardinality(SlotsOf(key)) = 1
          /\ \A s \in SlotsOf(key) :
               /\ vals[s] \div 2 = Min(n, 2 ^ bits - 1)
               /\ vals[s] % 2 = 0

\* C17, its case: two calls of quality 0 on one key, from two threads, one of
\* which lost a swap and retried, have left counter 2 and flag 0.
C17_Witness ==
    /\ Quiescent
    /\ raced
    /\ \E key \in Keys :
         /\ succ[key][0] = 2 /\ succ[key][1] = 0
         /\ \A w \in Threads : Len(rets[w]) = 1
         /\ \E s \in SlotsOf(key) : vals[s] = 4

\* C18: the slot a thread holds after a successful key lookup is an index of
\* the value array, the value it is about to store (3 included) is less than
\* 2^(bits+1), so that it is stored whole, and no slot's counter exceeds
\* 2^bits - 1.
C18_FitsTheCell ==
    /\ \A w \in Threads :
         apc[w] \in {"get", "cas"} => aid[w] \in Slots
    /\ \A w \in Threads :
         apc[w] = "cas" =>
           /\ nval[w] < 2 ^ (bits + 1)
           /\ Stored(nval[w], bits) = nval[w]
           /\ nval[w] \div 2 <= 2 ^ bits - 1
    /\ \A s \in Slots :
         /\ vals[s] < 2 ^ (bits + 1)
         /\ vals[s] \div 2 <= 2 ^ bits - 1

\* C18, its case: with the widest counter drawn, a slot has counted up to
\* 2^bits - 1, the largest value of bits+1 bits with flag 0.
C18_Witness ==
    /\ bits = MaxBits
    /\ Quiescent
    /\ \E s \in Slots :
         /\ keys[s] # NoKey
         /\ vals[s] = 2 ^ (bits + 1) - 2

\* C19: from a table whose slots are all 0, the flag of every slot stays 0,
\* no thread takes the branch that computes 3 (every value about to be
\* stored is the old value plus 2), and no step lowers the counter of a slot.
C19_FlagStaysZero ==
    /\ [](\A s \in Slots : vals[s] % 2 = 0)
    /\ [](\A w \in Threads :
            apc[w] = "cas" => (~Downgrade(oval[w], aq[w]) /\ nval[w] = oval[w] + 2))
    /\ [][\A s \in Slots : vals'[s] \div 2 >= vals[s] \div 2]_vars

\* C19, its case: a key has had a call of quality 1 and then calls of quality
\* 0, which on a set flag would have been downgrades, and its slot has
\* counted them all.
C19_Witness ==
    /\ Quiescent
    /\ \E key \in Keys : \E s \in SlotsOf(key) :
         /\ succ[key][1] >= 1 /\ succ[key][0] >= 1
         /\ vals[s] = 2 * Min(Calls(key), 2 ^ bits - 1)
         /\ Calls(key) = MaxCalls

\* the slots of thread w's unfinished call, none of whose swaps has succeeded
Pending(w) == IF apc[w] \in {"get", "cas"} THEN {aid[w]} ELSE {}

\* C20: a slot that holds a key and packed value 0 is the slot of a call
\* that is in progress on that key, between its key lookup and its first
\* successful swap; the call that puts a key into the key array is such a
\* call from that step on, and a call that holds a slot returns only when
\* the slot's counter is >= 1; so when no call is in progress every key of
\* the key array has counter >= 1.
C20_PresentMeansCounted ==
    /\ [](\A s \in Slots :
            (keys[s] # NoKey /\ vals[s] = 0) =>
              \E w \in Threads : s \in Pending(w) /\ akey[w] = keys[s])
    /\ [](Quiescent =>
            \A s \in Slots : keys[s] # NoKey => vals[s] \div 2 >= 1)
    /\ [][\A s \in Slots :
            /\ (keys[s] = NoKey /\ keys'[s] # NoKey) =>
                 \E w \in Threads :
                   /\ apc[w] = "idle" /\ apc'[w] = "get"
                   /\ aid'[w] = s /\ akey'[w] = keys'[s]
                   /\ vals'[s] = 0
            /\ \A w \in Threads :
                 (s \in Pending(w) /\ apc'[w] = "idle") => vals'[s] \div 2 >= 1]_vars

\* C20, its case: a call has put its key into the key array and has not
\* swapped yet, so the key is there with packed value 0, and a call of
\* another thread has found the key and read that 0.
C20_Witness ==
    \E w, u \in Threads :
      /\ w # u
      /\ apc[w] = "cas" /\ apc[u] = "cas"
      /\ aid[u] = aid[w] /\ akey[u] = akey[w]
      /\ keys[aid[w]] = akey[w] /\ vals[aid[w]] = 0

====
